---------------------------- MODULE Spec2Model ----------------------------
(***************************************************************************)
(* A model of readletter's Flask backend (src/app.py): the three request   *)
(* handlers scan_letter, get_history and check_status, the letters table   *)
(* they share, and the environment they talk to (the HTTP client, the      *)
(* Gemini service, the SQLite engine and the wall clock).                  *)
(*                                                                         *)
(* Requests are served by worker threads.  A handler is cut into steps     *)
(* only where it meets shared state or the outside world: the blocking     *)
(* call to the service, the INSERT, and the read of the cursor after it.   *)
(*                                                                         *)
(* Texts are sequences of characters.  The body of a JSON document is one  *)
(* element of such a sequence, a lexeme that stands for the characters of  *)
(* one complete JSON value (which neither starts nor ends with a           *)
(* backtick); the fence markers and the whitespace around a document are   *)
(* spelled character by character, so that the slices [7:] and [:-3] of    *)
(* the handler cut exactly what they cut in the code.                      *)
(***************************************************************************)
EXTENDS Integers, Sequences, FiniteSets, TLC

VARIABLES
    GEMINI_API_KEY, \* TRUE iff the credential is set (truthy) at import time
    letters,        \* the rows of table letters, in insertion (rowid) order
    sqlite_sequence,\* AUTOINCREMENT's record of the largest id ever assigned
    now,            \* the wall clock, in ticks (fractions of a second)
    req             \* per worker thread: the request it is serving

vars == <<GEMINI_API_KEY, letters, sqlite_sequence, now, req>>

---------------------------------------------------------------------------
(* Bounds *)

MaxRows == 2        \* scans admitted while fewer than this many rows exist
MaxClock == 2       \* the clock stops advancing at this tick
TicksPerSecond == 2 \* clock ticks in one second

Workers == {"w1", "w2"}

---------------------------------------------------------------------------
(* JSON values.  t is the type, s the text of a string, n the number. *)

Null == [t |-> "null", s |-> "", n |-> 0]
Str(x) == [t |-> "str", s |-> x, n |-> 0]
Num(x) == [t |-> "int", s |-> "", n |-> x]
Nested == [t |-> "obj", s |-> "", n |-> 0]      \* an object or array value
Date(sec) == [t |-> "date", s |-> "", n |-> sec]
Usage == [t |-> "usage", s |-> "", n |-> 0]
Bool(b) == [t |-> "bool", s |-> "", n |-> IF b THEN 1 ELSE 0]

EmptyDict == [k \in {} |-> Null]

\* dict.get(key): the value, or None when the key is absent.
get(d, key) == IF key \in DOMAIN d THEN d[key] ELSE Null

\* d[key] = value
setitem(d, key, value) ==
    [k \in DOMAIN d \cup {key} |-> IF k = key THEN value ELSE d[k]]

---------------------------------------------------------------------------
(* Texts *)

startswith(text, prefix) ==
    /\ Len(text) >= Len(prefix)
    /\ SubSeq(text, 1, Len(prefix)) = prefix

endswith(text, suffix) ==
    /\ Len(text) >= Len(suffix)
    /\ SubSeq(text, Len(text) - Len(suffix) + 1, Len(text)) = suffix

\* The backtick character (a string of the module cannot hold one).
BQ == "backtick"

JsonFence == <<BQ, BQ, BQ, "j", "s", "o", "n">>
Fence == <<BQ, BQ, BQ>>

\* The clean-up with an opening slice of [3:]: the fence goes, its json
\* tag stays.
StripThreeOnly(text_response) ==
    LET a == IF startswith(text_response, JsonFence)
             THEN SubSeq(text_response, 3 + 1, Len(text_response))
             ELSE text_response
    IN IF endswith(a, Fence) THEN SubSeq(a, 1, Len(a) - 3) ELSE a

\* Lines 90-93: drop seven characters after a leading ```json, then three
\* characters before a trailing ```.
StripFences(text_response) ==
    LET a == IF startswith(text_response, JsonFence)
             THEN SubSeq(text_response, 7 + 1, Len(text_response))
             ELSE text_response
    IN IF endswith(a, Fence) THEN SubSeq(a, 1, Len(a) - 3) ELSE a

\* The JSON documents the service is taken to answer with, each a lexeme.
\* J_full is the example of the specification, J_num an object with a
\* numeric field, an id of its own and four fields missing, J_nested an
\* object with an object for a field, J_list a document that is no object.
JsonDoc ==
    [lexeme \in {"J_full", "J_num", "J_nested", "J_list"} |->
        CASE lexeme = "J_full" ->
               [dict |-> TRUE,
                items |-> [k \in {"sender_name", "sender_address",
                                  "recipient_name", "recipient_address",
                                  "send_date"} |->
                    CASE k = "sender_name" -> Str("Alice")
                      [] k = "sender_address" -> Null
                      [] k = "recipient_name" -> Str("Bob")
                      [] k = "recipient_address" -> Str("1 Main St")
                      [] k = "send_date" -> Str("2024-01-05")]]
          [] lexeme = "J_num" ->
               [dict |-> TRUE,
                items |-> [k \in {"sender_name", "id"} |->
                    IF k = "id" THEN Num(99) ELSE Num(123)]]
          [] lexeme = "J_nested" ->
               [dict |-> TRUE,
                items |-> [k \in {"sender_name", "recipient_name"} |->
                    IF k = "sender_name" THEN Nested ELSE Str("Bob")]]
          [] lexeme = "J_list" ->
               [dict |-> FALSE, items |-> EmptyDict]]

Whitespace == {" ", "\n"}

RECURSIVE lstrip(_)
lstrip(text) ==
    IF text # <<>> /\ Head(text) \in Whitespace THEN lstrip(Tail(text))
    ELSE text

RECURSIVE rstrip(_)
rstrip(text) ==
    IF text # <<>> /\ text[Len(text)] \in Whitespace
    THEN rstrip(SubSeq(text, 1, Len(text) - 1))
    ELSE text

\* json.loads (line 95): one JSON value with optional whitespace around
\* it, anything else raises.
json_loads(text) ==
    LET body == rstrip(lstrip(text))
    IN IF Len(body) = 1 /\ body[1] \in DOMAIN JsonDoc
       THEN [ok |-> TRUE, value |-> JsonDoc[body[1]]]
       ELSE [ok |-> FALSE, value |-> [dict |-> FALSE, items |-> EmptyDict]]

---------------------------------------------------------------------------
(* Request bodies of POST /api/scan *)

\* The value under "image": absent, null, a number or a string (a sequence
\* of characters).
NoImage == [t |-> "absent", chars |-> <<>>, n |-> 0]
NullImage == [t |-> "null", chars |-> <<>>, n |-> 0]
NumImage(x) == [t |-> "int", chars |-> <<>>, n |-> x]
StrImage(text) == [t |-> "str", chars |-> text, n |-> 0]

\* shape: "nojson" when request.json raises (no JSON content type, or a
\* body that is not JSON), "nonobject" when it yields a list or None,
\* "object" when it yields a dict.
Bodies ==
    { [shape |-> "nojson", image |-> NoImage],
      [shape |-> "nonobject", image |-> NoImage],
      [shape |-> "object", image |-> NoImage],
      [shape |-> "object", image |-> NullImage],
      [shape |-> "object", image |-> StrImage(<<>>)],
      [shape |-> "object", image |-> NumImage(7)],
      [shape |-> "object", image |-> StrImage(<<"A", "A", "A", "A">>)],
      [shape |-> "object",
       image |-> StrImage(<<"d", ":", ",", "A", "A", "A", "A">>)],
      [shape |-> "object", image |-> StrImage(<<"A", "A", "A">>)],
      [shape |-> "object", image |-> StrImage(<<"!", "!">>)] }

NoBody == [shape |-> "none", image |-> NoImage]

\* Python truthiness of image_data (line 57).
truthy(image_data) ==
    \/ image_data.t = "str" /\ image_data.chars # <<>>
    \/ image_data.t = "int" /\ image_data.n # 0

Contains(text, c) == \E i \in 1..Len(text) : text[i] = c

\* The index of the first c in text, Len(text) + 1 when there is none.
RECURSIVE find(_, _)
find(text, c) ==
    IF text = <<>> \/ Head(text) = c THEN 1 ELSE 1 + find(Tail(text), c)

\* image_data.split(',')[1] (line 62), for a text that holds a comma.
SplitSecond(text) ==
    LET rest == SubSeq(text, find(text, ",") + 1, Len(text))
    IN SubSeq(rest, 1, find(rest, ",") - 1)

Base64Alphabet == {"A", "d"}

\* base64.b64decode (line 64): characters outside the alphabet are
\* discarded, and what is left must come in groups of four.
b64decode(text) ==
    LET kept == SelectSeq(text, LAMBDA c : c \in Base64Alphabet)
    IN [ok |-> Len(kept) % 4 = 0, nbytes |-> (Len(kept) \div 4) * 3]

---------------------------------------------------------------------------
(* Responses *)

\* kind "json" is a response built with jsonify; kind "unhandled" is what
\* the framework sends when an exception leaves the handler.
JsonResponse(code, dict) ==
    [kind |-> "json", status |-> code, body |-> dict, rows |-> <<>>,
     hasRaw |-> FALSE, raw_response |-> <<>>]

ErrorResponse(code, message) ==
    JsonResponse(code, [k \in {"error"} |-> Str(message)])

ParseErrorResponse(text) ==
    [kind |-> "json", status |-> 500,
     body |-> [k \in {"error"} |-> Str("Failed to parse AI response")],
     rows |-> <<>>, hasRaw |-> TRUE, raw_response |-> text]

ListResponse(list) ==
    [kind |-> "json", status |-> 200, body |-> EmptyDict, rows |-> list,
     hasRaw |-> FALSE, raw_response |-> <<>>]

Unhandled ==
    [kind |-> "unhandled", status |-> 500, body |-> EmptyDict, rows |-> <<>>,
     hasRaw |-> FALSE, raw_response |-> <<>>]

NoResponse ==
    [kind |-> "none", status |-> 0, body |-> EmptyDict, rows |-> <<>>,
     hasRaw |-> FALSE, raw_response |-> <<>>]

---------------------------------------------------------------------------
(* The letters table (lines 26-40) *)

Columns ==
    <<"send_date", "sender_name", "sender_address", "recipient_name",
      "recipient_address">>

\* The Python types sqlite3 binds as parameters; a dict or a list raises.
Bindable(v) == v.t \in {"null", "str", "int"}

\* A TEXT column stores a number it is given as that number's text.
TextAffinity(v) == IF v.t = "int" THEN Str(ToString(v.n)) ELSE v

StoredValue(v) == TextAffinity(v)

RECURSIVE MaxId(_)
MaxId(rows) ==
    IF rows = <<>> THEN 0
    ELSE LET m == MaxId(Tail(rows))
         IN IF Head(rows).id > m THEN Head(rows).id ELSE m

\* INTEGER PRIMARY KEY AUTOINCREMENT (line 30): one more than the largest
\* id the table has ever held.
NextId ==
    1 + (IF sqlite_sequence > MaxId(letters) THEN sqlite_sequence
         ELSE MaxId(letters))

\* The INSERT with the two names bound to each other's column.
SwappedRow(id, scan_date, items) ==
    [id |-> id,
     scan_date |-> Date(scan_date),
     send_date |-> StoredValue(get(items, "send_date")),
     sender_name |-> StoredValue(get(items, "recipient_name")),
     sender_address |-> StoredValue(get(items, "sender_address")),
     recipient_name |-> StoredValue(get(items, "sender_name")),
     recipient_address |-> StoredValue(get(items, "recipient_address"))]

\* The row of the INSERT of lines 104-114.
NewRow(id, scan_date, items) ==
    [id |-> id,
     scan_date |-> Date(scan_date),
     send_date |-> StoredValue(get(items, "send_date")),
     sender_name |-> StoredValue(get(items, "sender_name")),
     sender_address |-> StoredValue(get(items, "sender_address")),
     recipient_name |-> StoredValue(get(items, "recipient_name")),
     recipient_address |-> StoredValue(get(items, "recipient_address"))]

\* SELECT * FROM letters ORDER BY scan_date DESC (line 138): every row,
\* the later scan_date first.  The statement names no second sort key, so
\* rows of one scan_date come in an order the engine is free to choose.
\* (scan_date texts have one fixed width, so they compare as their
\* seconds do.)
OrderByScanDateDesc(rows) ==
    { [i \in 1..Len(rows) |-> rows[p[i]]] :
        p \in { q \in Permutations(1..Len(rows)) :
                  \A i, j \in 1..Len(rows) :
                      i < j => rows[q[i]].scan_date.n >= rows[q[j]].scan_date.n } }

---------------------------------------------------------------------------
(* The environment *)

\* datetime.now().strftime("%Y-%m-%d %H:%M:%S") (line 100): the clock cut
\* to the second.
strftime(clock) == clock \div TicksPerSecond

\* What response.text can be (line 88).
RespTexts ==
    { <<"J_full">>, <<"J_num">>, <<"J_nested">>, <<"J_list">>,
      JsonFence \o <<"J_full">> \o Fence,
      JsonFence \o <<"J_list">> \o Fence,
      <<"\n", "J_num", "\n">>,
      JsonFence \o <<"\n", "J_num", "\n">> \o Fence,
      Fence \o <<"\n", "J_full", "\n">> \o Fence,
      <<"x">> }

\* How generate_content ends (lines 81-84): it raises, or it returns a
\* response that has no text (reading .text raises), or one with a text.
ServiceOutcomes ==
    { [kind |-> "raise", text |-> <<>>], [kind |-> "notext", text |-> <<>>] }
    \cup { [kind |-> "text", text |-> t] : t \in RespTexts }

\* usage_metadata of the response (lines 123-128): the attribute is
\* missing, or it holds the three counts, or it is there without them
\* (None), so that reading a count raises.
UsageKinds == {"absent", "present", "broken"}

---------------------------------------------------------------------------
(* The handlers *)

NoData == [dict |-> FALSE, items |-> EmptyDict]

\* A worker between requests.
Idle ==
    [pc |-> "idle", handler |-> "none", body |-> NoBody, effects |-> {},
     hasText |-> FALSE, text |-> <<>>, extracted_data |-> NoData,
     scan_date |-> 0, lastrowid |-> 0, response |-> NoResponse]

Finish(r, resp) == [r EXCEPT !.pc = "done", !.response = resp]

ConfigError == ErrorResponse(500, "Gemini API Key not configured")

\* The checks of lines 50-58 with the credential looked at last.
ReceiveBodyFirst(key, b) ==
    IF b.shape # "object" THEN
        [call |-> FALSE, examined |-> TRUE,
         response |-> ErrorResponse(500, "exception")]
    ELSE IF ~truthy(b.image) THEN
        [call |-> FALSE, examined |-> TRUE,
         response |-> ErrorResponse(400, "No image provided")]
    ELSE IF ~key THEN
        [call |-> FALSE, examined |-> TRUE, response |-> ConfigError]
    ELSE [call |-> TRUE, examined |-> TRUE, response |-> NoResponse]

\* scan_letter, lines 50-64: the outcome of receiving body b.  call is
\* TRUE when the handler goes on to call the service; examined is TRUE
\* when it read the request body.
Receive(key, b) ==
    IF ~key THEN
        [call |-> FALSE, examined |-> FALSE, response |-> ConfigError]
    ELSE IF b.shape # "object" THEN
        \* request.json raises, or data.get does (data is no dict)
        [call |-> FALSE, examined |-> TRUE,
         response |-> ErrorResponse(500, "exception")]
    ELSE IF ~truthy(b.image) THEN
        [call |-> FALSE, examined |-> TRUE,
         response |-> ErrorResponse(400, "No image provided")]
    ELSE IF b.image.t # "str" THEN
        \* ',' in image_data raises TypeError
        [call |-> FALSE, examined |-> TRUE,
         response |-> ErrorResponse(500, "exception")]
    ELSE LET image_data == IF Contains(b.image.chars, ",")
                           THEN SplitSecond(b.image.chars)
                           ELSE b.image.chars
         IN IF ~b64decode(image_data).ok THEN
                [call |-> FALSE, examined |-> TRUE,
                 response |-> ErrorResponse(500, "exception")]
            ELSE [call |-> TRUE, examined |-> TRUE, response |-> NoResponse]

\* Scans on their way to the INSERT.
InFlight == Cardinality({w \in Workers : req[w].pc \in {"calling", "insert"}})

ScanReceive(w, b) ==
    /\ req[w].pc = "idle"
    /\ LET out == Receive(GEMINI_API_KEY, b)
           r == [Idle EXCEPT !.handler = "scan", !.body = b,
                             !.effects = IF out.examined THEN {"body"} ELSE {}]
       IN IF out.call
          THEN /\ Len(letters) + InFlight < MaxRows
               /\ req' = [req EXCEPT ![w] =
                            \* from here on only image_bytes is in use
                            [r EXCEPT !.pc = "calling", !.body = NoBody,
                                      !.effects = @ \cup {"service"}]]
          ELSE req' = [req EXCEPT ![w] = Finish(r, out.response)]
    /\ UNCHANGED <<GEMINI_API_KEY, letters, sqlite_sequence, now>>

\* The parse failure answered with the stripped text_response.
ParseErrorStripped(text) == ParseErrorResponse(StripFences(text))

\* The 500 response of line 97, given response.text.
ParseFailure(text) == ParseErrorResponse(text)

\* scan_letter, lines 81-100: generate_content ends, the text is parsed and
\* scan_date is stamped.
ScanExtract(w, o) ==
    /\ req[w].pc = "calling"
    /\ LET r == req[w]
           parsed == json_loads(StripFences(o.text))
       IN req' = [req EXCEPT ![w] =
            IF o.kind = "raise" THEN Finish(r, ErrorResponse(500, "exception"))
            ELSE IF o.kind = "notext" THEN
                \* response.text raises at line 88 and again at line 97
                Finish(r, ErrorResponse(500, "exception"))
            ELSE IF ~parsed.ok THEN
                Finish([r EXCEPT !.hasText = TRUE, !.text = o.text],
                       ParseFailure(o.text))
            ELSE [r EXCEPT !.pc = "insert", !.hasText = TRUE, !.text = o.text,
                           !.extracted_data = parsed.value,
                           !.scan_date = strftime(now)]]
    /\ UNCHANGED <<GEMINI_API_KEY, letters, sqlite_sequence, now>>

\* scan_letter, lines 102-115: connect, bind the six values, INSERT and
\* commit.  available is FALSE when the engine refuses the connection or
\* the write.
ScanInsert(w, available) ==
    /\ req[w].pc = "insert"
    /\ LET r == [req[w] EXCEPT !.effects = @ \cup {"db"}]
           data == r.extracted_data
           id == NextId
       IN IF \/ ~available
             \/ ~data.dict                     \* .get of a list raises
             \/ \E i \in DOMAIN Columns : ~Bindable(get(data.items, Columns[i]))
          THEN /\ req' = [req EXCEPT ![w] =
                            Finish(r, ErrorResponse(500, "exception"))]
               /\ UNCHANGED <<letters, sqlite_sequence>>
          ELSE /\ letters' = Append(letters, NewRow(id, r.scan_date, data.items))
               /\ sqlite_sequence' = id
               /\ req' = [req EXCEPT ![w] =
                            [r EXCEPT !.pc = "respond", !.lastrowid = id]]
    /\ UNCHANGED <<GEMINI_API_KEY, now>>

\* The id of the last row any connection inserted.
ConnectionLastId(w) == sqlite_sequence

\* cur.lastrowid (line 116): the id of the row this cursor inserted.
lastrowid(w) == req[w].lastrowid

\* scan_letter, lines 116-130: the response.
ScanRespond(w, usage) ==
    /\ req[w].pc = "respond"
    /\ LET r == req[w]
           new_id == lastrowid(w)
           d1 == setitem(r.extracted_data.items, "id", Num(new_id))
           d2 == setitem(d1, "scan_date", Date(r.scan_date))
           d3 == IF usage = "present" THEN setitem(d2, "usage", Usage) ELSE d2
       IN req' = [req EXCEPT ![w] =
            IF usage = "broken"
            THEN Finish(r, ErrorResponse(500, "exception"))
            ELSE Finish(r, JsonResponse(200, d3))]
    /\ UNCHANGED <<GEMINI_API_KEY, letters, sqlite_sequence, now>>

\* get_history, lines 137-141.  No try surrounds the handler: when the
\* engine is not available the exception leaves it.
GetHistory(w, available) ==
    /\ req[w].pc = "idle"
    /\ LET r == [Idle EXCEPT !.handler = "history", !.effects = {"db"}]
       IN IF available
          THEN \E list \in OrderByScanDateDesc(letters) :
                  req' = [req EXCEPT ![w] = Finish(r, ListResponse(list))]
          ELSE req' = [req EXCEPT ![w] = Finish(r, Unhandled)]
    /\ UNCHANGED <<GEMINI_API_KEY, letters, sqlite_sequence, now>>

\* The status dict of lines 145-148.
StatusBody(connected) ==
    [k \in {"gemini_connected", "model"} |->
        IF k = "model" THEN Str("gemini-2.0-flash") ELSE Bool(connected)]

\* The probe made whether or not a credential is configured.
StatusWithoutKeyCheck(key, probeRaises) ==
    [called |-> TRUE, response |-> JsonResponse(200, StatusBody(~probeRaises))]

\* check_status, lines 145-158: the response for a credential and a probe
\* that raises or not, and whether the probe is called at all.
Status(key, probeRaises) ==
    IF key
    THEN [called |-> TRUE,
          response |-> JsonResponse(200, StatusBody(~probeRaises))]
    ELSE [called |-> FALSE, response |-> JsonResponse(200, StatusBody(FALSE))]

CheckStatus(w, probeRaises) ==
    /\ req[w].pc = "idle"
    /\ LET out == Status(GEMINI_API_KEY, probeRaises)
           r == [Idle EXCEPT !.handler = "status",
                             !.effects =
                                 IF ~out.called THEN {}
                                 ELSE IF probeRaises THEN {"service", "raised"}
                                 ELSE {"service"}]
       IN req' = [req EXCEPT ![w] = Finish(r, out.response)]
    /\ UNCHANGED <<GEMINI_API_KEY, letters, sqlite_sequence, now>>

\* The response is sent and the worker takes the next request.
Return(w) ==
    /\ req[w].pc = "done"
    /\ req' = [req EXCEPT ![w] = Idle]
    /\ UNCHANGED <<GEMINI_API_KEY, letters, sqlite_sequence, now>>

Tick ==
    /\ now < MaxClock
    /\ now' = now + 1
    /\ UNCHANGED <<GEMINI_API_KEY, letters, sqlite_sequence, req>>

---------------------------------------------------------------------------

\* The process after import: the credential read from the environment
\* (line 16), the table created empty by init_db (line 42).
Init ==
    /\ GEMINI_API_KEY \in BOOLEAN
    /\ letters = <<>>
    /\ sqlite_sequence = 0
    /\ now = 0
    /\ req = [w \in Workers |-> Idle]

Next ==
    \/ \E w \in Workers, b \in Bodies : ScanReceive(w, b)
    \/ \E w \in Workers, o \in ServiceOutcomes : ScanExtract(w, o)
    \/ \E w \in Workers, available \in BOOLEAN : ScanInsert(w, available)
    \/ \E w \in Workers, usage \in UsageKinds : ScanRespond(w, usage)
    \/ \E w \in Workers, available \in BOOLEAN : GetHistory(w, available)
    \/ \E w \in Workers, probeRaises \in BOOLEAN : CheckStatus(w, probeRaises)
    \/ \E w \in Workers : Return(w)
    \/ Tick

Spec == Init /\ [][Next]_vars

---------------------------------------------------------------------------
(* Properties *)

\* Worker w has answered a submit-scan request.
Scanned(w) == req[w].handler = "scan" /\ req[w].pc = "done"

Succeeded(w) == Scanned(w) /\ req[w].response.status = 200

\* The rows the request of worker w inserted: those with its cursor's id.
InsertedBy(w) ==
    {i \in 1..Len(letters) : letters[i].id = req[w].lastrowid}

\* No step removes or changes a row, and a step adds at most one.
AppendOnly ==
    /\ Len(letters') \in {Len(letters), Len(letters) + 1}
    /\ SubSeq(letters', 1, Len(letters)) = letters

\* C1 (as claimed): whenever submit-scan is answered with status 400 or
\* 500, the request has added no row to the letters table.
C1_NothingPersistedOnFailure ==
    \A w \in Workers :
        Scanned(w) /\ req[w].response.status \in {400, 500}
            => InsertedBy(w) = {}

\* C2: the id a row gets is strictly greater than every id assigned
\* before it, rows are never removed or renumbered, so ids are unique and
\* never reused, and every successful response carries the id of the one
\* row its own request inserted, whatever the interleaving.
C2_IdsIncreaseAndBelongToTheirRequest ==
    /\ [][/\ AppendOnly
          /\ Len(letters') > Len(letters) =>
                /\ letters'[Len(letters')].id > sqlite_sequence
                /\ \A i \in 1..Len(letters) :
                      letters'[Len(letters')].id > letters[i].id]_vars
    /\ [](\A i, j \in 1..Len(letters) :
              i < j => letters[i].id < letters[j].id)
    /\ [](\A w \in Workers :
              Succeeded(w) =>
                  /\ req[w].lastrowid > 0
                  /\ req[w].response.body["id"] = Num(req[w].lastrowid)
                  /\ Cardinality(InsertedBy(w)) = 1)
    /\ [](\A v, w \in Workers :
              v # w /\ Succeeded(v) /\ Succeeded(w) =>
                  req[v].response.body["id"] # req[w].response.body["id"])

\* Two scans interleave: w2 inserted after w1 and has answered with the
\* larger id while w1 has yet to read its cursor.
C2_Witness ==
    /\ req["w1"].pc = "respond" /\ req["w1"].lastrowid = 1
    /\ Succeeded("w2") /\ req["w2"].response.body["id"] = Num(2)

\* A list-history response of worker w.
Listed(w) ==
    /\ req[w].handler = "history"
    /\ req[w].pc = "done"
    /\ req[w].response.kind = "json"

\* list holds the whole table as it was at some moment (ids 1..n, each
\* once, rows as stored), the later scan_date first.
WholeTableNewestFirst(list) ==
    /\ \A i \in 1..Len(list) : \E k \in 1..Len(letters) : letters[k] = list[i]
    /\ {list[i].id : i \in 1..Len(list)} = 1..Len(list)
    /\ \A i, j \in 1..Len(list) :
          i < j => list[i].scan_date.n >= list[j].scan_date.n

\* C3 (as claimed): list-history returns every stored record ordered by
\* scan_date descending, and of two records with the same scan_date the
\* one inserted later (the larger id) comes first.
C3_NewestFirstTiesReversed ==
    \A w \in Workers :
        Listed(w) =>
            LET list == req[w].response.rows
            IN /\ WholeTableNewestFirst(list)
               /\ \A i, j \in 1..Len(list) :
                     i < j /\ list[i].scan_date = list[j].scan_date
                         => list[i].id > list[j].id

\* The response of a successful scan of worker w: the extracted object
\* with id and scan_date set to those of row, and usage possibly added.
ResponseIsExtractedPlus(w, row) ==
    LET body == req[w].response.body
        items == req[w].extracted_data.items
    IN /\ DOMAIN body \ {"usage"} = DOMAIN items \cup {"id", "scan_date"}
       /\ \A k \in DOMAIN items \ {"id", "scan_date"} : body[k] = items[k]
       /\ body["id"] = Num(row.id)
       /\ body["scan_date"] = row.scan_date
       /\ "usage" \in DOMAIN body => body["usage"] = Usage

\* C4 (as claimed): a successful submit-scan has added exactly one row,
\* which holds the scan_date and, column by column, the extracted value
\* itself (null for a missing field); the response is the extracted object
\* plus the id and scan_date of that row.
C4_RowHoldsExtractedValues ==
    \A w \in Workers :
        Succeeded(w) =>
            /\ Cardinality(InsertedBy(w)) = 1
            /\ \A i \in InsertedBy(w) :
                  /\ letters[i].scan_date = Date(req[w].scan_date)
                  /\ \A c \in DOMAIN Columns :
                        letters[i][Columns[c]] =
                            get(req[w].extracted_data.items, Columns[c])
                  /\ ResponseIsExtractedPlus(w, letters[i])

\* C4 (amended): a successful submit-scan has added exactly one row, no
\* step changes or removes a row, and the row holds the scan_date and,
\* column by column, the extracted value when that is a string or null
\* (null for a missing field) and the decimal text of the value when it is
\* a number; the response is the extracted object plus the id and
\* scan_date of that row.
C4_RowHoldsExtractedValuesAsText ==
    /\ [][AppendOnly]_vars
    /\ [](\A w \in Workers :
            Succeeded(w) =>
                /\ Cardinality(InsertedBy(w)) = 1
                /\ \A i \in InsertedBy(w) :
                      /\ letters[i].scan_date = Date(req[w].scan_date)
                      /\ \A c \in DOMAIN Columns :
                            LET v == get(req[w].extracted_data.items, Columns[c])
                            IN /\ v.t \in {"str", "null"} => letters[i][Columns[c]] = v
                               /\ v.t = "int" =>
                                     letters[i][Columns[c]] = Str(ToString(v.n))
                      /\ ResponseIsExtractedPlus(w, letters[i]))

\* A scan of the specification's example has succeeded, and so has one
\* whose extraction result holds a number and lacks four fields.
C4_Witness ==
    /\ Succeeded("w1") /\ rstrip(lstrip(req["w1"].text)) = <<"J_num">>
    /\ Succeeded("w2") /\ req["w2"].text = <<"J_full">>
    /\ "usage" \in DOMAIN req["w2"].response.body

\* The image payload of body b is missing, empty or malformed.
BadImage(b) ==
    \/ b.shape \in {"nojson", "nonobject"}
    \/ b.image.t \in {"absent", "null"}
    \/ b.image.t = "str" /\ b.image.chars = <<>>
    \/ /\ b.image.t = "str"
       /\ ~b64decode(IF Contains(b.image.chars, ",")
                     THEN SplitSecond(b.image.chars)
                     ELSE b.image.chars).ok

\* C5 (as claimed): with a credential configured, a submit-scan whose
\* image payload is missing, empty or malformed is answered with status
\* 400 and adds no row.
C5_BadImageIsClientError ==
    \A w \in Workers :
        GEMINI_API_KEY /\ Scanned(w) /\ BadImage(req[w].body) =>
            /\ req[w].response.status = 400
            /\ InsertedBy(w) = {}

\* C6: without a credential every submit-scan, whatever its body, is
\* answered with the 500 configuration error at once: the body is not
\* examined, the service is not called, the store is not opened and no
\* row is added.
C6_NoCredentialStopsScanFirst ==
    ~GEMINI_API_KEY =>
        /\ letters = <<>>
        /\ \A w \in Workers :
              req[w].handler = "scan" =>
                  /\ req[w].pc = "done"
                  /\ req[w].response = ConfigError
                  /\ req[w].response.status = 500
                  /\ req[w].effects = {}
                  /\ InsertedBy(w) = {}

\* Without a credential, a scan with a well-formed image and one whose
\* body is no JSON have both been answered.
C6_Witness ==
    /\ ~GEMINI_API_KEY
    /\ Scanned("w1") /\ ~BadImage(req["w1"].body)
    /\ Scanned("w2") /\ req["w2"].body.shape = "nojson"

\* C7: when the call returned a text that is not valid JSON after
\* fence-stripping, submit-scan answers 500 with raw_response equal to the
\* text exactly as received, and adds no row.
C7_ParseErrorCarriesRawText ==
    \A w \in Workers :
        /\ Scanned(w)
        /\ req[w].hasText
        /\ ~json_loads(StripFences(req[w].text)).ok
        => /\ req[w].response.status = 500
           /\ req[w].response.hasRaw
           /\ req[w].response.raw_response = req[w].text
           /\ InsertedBy(w) = {}

\* A scan has failed to parse a text that fence-stripping shortens.
C7_Witness ==
    \E w \in Workers :
        /\ Scanned(w)
        /\ req[w].response.hasRaw
        /\ req[w].text = Fence \o <<"\n", "J_full", "\n">> \o Fence
        /\ StripFences(req[w].text) # req[w].text

\* Worker w has parsed, or failed to parse, the text of a response.
PastParse(w) == req[w].handler = "scan" /\ req[w].hasText

\* The text of v is the text of w, a valid JSON text, inside a JSON fence.
FencedPair(v, w) ==
    /\ PastParse(v) /\ PastParse(w)
    /\ json_loads(req[w].text).ok
    /\ req[v].text = JsonFence \o req[w].text \o Fence

\* C8: a valid JSON text inside a JSON code fence is parsed to the same
\* data as the text alone: neither fails to parse, the extracted data are
\* equal, the rows inserted hold the same five fields, and the responses
\* agree on every field of the extracted object.
C8_FencedParsesAsBare ==
    \A v, w \in Workers :
        FencedPair(v, w) =>
            /\ ~req[v].response.hasRaw /\ ~req[w].response.hasRaw
            /\ req[v].extracted_data = req[w].extracted_data
            /\ \A i \in InsertedBy(v), j \in InsertedBy(w) :
                  \A c \in DOMAIN Columns :
                      letters[i][Columns[c]] = letters[j][Columns[c]]
            /\ Succeeded(v) /\ Succeeded(w) =>
                  LET a == req[v].response.body
                      b == req[w].response.body
                      own == {"id", "scan_date", "usage"}
                  IN /\ DOMAIN a \ own = DOMAIN b \ own
                     /\ \A k \in DOMAIN a \ own : a[k] = b[k]

\* Two scans have succeeded, one on a document and one on the same
\* document (whitespace included) inside a fence.
C8_Witness ==
    \E v, w \in Workers :
        /\ FencedPair(v, w)
        /\ Succeeded(v) /\ Succeeded(w)
        /\ req[w].text = <<"\n", "J_num", "\n">>

\* C9 (as claimed): in all three handlers every failure is caught and
\* answered with a JSON response (an error body for submit-scan and
\* list-history); no exception leaves a handler.
C9_EveryFailureAnsweredInJson ==
    \A w \in Workers :
        req[w].pc = "done" =>
            /\ req[w].response.kind = "json"
            /\ req[w].response.status # 200 =>
                  "error" \in DOMAIN req[w].response.body

\* C10: check-status always answers 200 with the fixed model identifier
\* and a boolean flag; the flag is false without a call to the service
\* when no credential is configured, false when the probe raised, true
\* only when a credential is configured and the probe returned; and the
\* request neither opens nor changes the store.
C10_StatusReportsConnectivity ==
    /\ [](\A w \in Workers :
            req[w].handler = "status" =>
                LET r == req[w]
                    flag == r.response.body["gemini_connected"]
                IN /\ r.pc = "done"
                   /\ r.response.kind = "json" /\ r.response.status = 200
                   /\ DOMAIN r.response.body = {"gemini_connected", "model"}
                   /\ r.response.body["model"] = Str("gemini-2.0-flash")
                   /\ flag \in {Bool(TRUE), Bool(FALSE)}
                   /\ ~GEMINI_API_KEY =>
                         flag = Bool(FALSE) /\ "service" \notin r.effects
                   /\ "raised" \in r.effects => flag = Bool(FALSE)
                   /\ flag = Bool(TRUE) =>
                         /\ GEMINI_API_KEY
                         /\ "service" \in r.effects
                         /\ "raised" \notin r.effects
                   /\ "db" \notin r.effects /\ r.lastrowid = 0)
    /\ [][\A w \in Workers :
            req'[w].handler = "status" /\ req[w].handler # "status" =>
                letters' = letters /\ sqlite_sequence' = sqlite_sequence]_vars

\* With a credential, one probe has raised and one has returned, while
\* the table holds a row.
C10_Witness ==
    /\ GEMINI_API_KEY
    /\ letters # <<>>
    /\ req["w1"].handler = "status" /\ "raised" \in req["w1"].effects
    /\ req["w2"].handler = "status"
    /\ req["w2"].response.body["gemini_connected"] = Bool(TRUE)

=============================================================================
